---- MODULE Spec2Model ----
(***************************************************************************)
(* Account ledger of the trading system (accounts.py), the row of the      *)
(* trader_accounts table that persists it, and the coordinator step        *)
(* Trader.execute_decision (trading_floor.py) that applies a decision;     *)
(* a second Account object held for the same trader (api_server.py); the   *)
(* raw_api_calls table with the request path of the Polygon and Alpha      *)
(* Vantage clients that caches in it; the price lookup get_current_price;  *)
(* the start-up configuration with is_market_open (trading_floor.py);     *)
(* the schedule functions, Trader.run with the portfolio building cycle,   *)
(* run_trading_cycle and run_trading_floor (trading_floor.py); the thread  *)
(* that restarts the floor (start_api.py); the market queries of           *)
(* PolygonClient (data/polygon.py); and the construction of Database       *)
(* objects (database.py, db_config.py).                                    *)
(*                                                                         *)
(* Money is counted in thousandths of a dollar, so that the spread of      *)
(* 0.002 and every fill price are whole numbers: the float arithmetic of   *)
(* the source is modelled as exact arithmetic.  Market prices are whole    *)
(* dollars; 0 is the "no price" value of get_current_price.                *)
(***************************************************************************)
EXTENDS Integers, Sequences, FiniteSets, TLC

VARIABLES
    balance,                      \* Account.balance, in thousandths of a dollar
    strategy,                     \* Account.strategy
    holdings,                     \* Account.holdings: function from the symbols present to counts
    transactions,                 \* Account.transactions
    portfolio_value_time_series,  \* Account.portfolio_value_time_series
    db,                           \* trader_accounts restricted to this trader: <<>> or <<row>>
    market,                       \* what get_current_price resolves for each symbol now
    now,                          \* wall clock, in seconds (the resolution of the timestamps)
    last,                         \* the last operation and how it ended
    nops,                         \* number of operations performed
    other,                        \* a second Account object of the same trader: <<>> or <<account>>
    raw_api_calls,                \* the rows of the raw_api_calls table, in insertion order
    reply,                        \* the last call on the cache path and how it ended
    requests,                     \* number of _make_request calls made
    save_calls,                   \* the save_api_call calls made so far (history)
    trade_data,                   \* what polygon.get_last_trade answers now
    quote_data,                   \* what polygon.get_last_quote answers now
    price_call,                   \* the last get_current_price call and what it returned
    config_py,                    \* config.py as found at start-up
    FORCE_MARKET_OPEN,            \* trading_floor.FORCE_MARKET_OPEN
    now_et,                       \* get_eastern_time(): weekday and minute of the day
    market_status,                \* what the market-status sources answer now
    is_open,                      \* the last is_market_open call and what it returned
    schedule,                     \* what the scheduler answered in the cycle at now_et
    trader,                       \* Trader.name of the trader that owns the account
    run_result,                   \* the last Trader.run call and what it returned
    cycle,                        \* run_trading_cycle: its traders and how far each has come
    supervisor,                   \* the thread of start_api.py that runs the trading floor
    databases                     \* the Database objects built in this process, and the stores

accountVars == <<balance, strategy, holdings, transactions, portfolio_value_time_series>>
gatewayVars == <<raw_api_calls, reply, requests, save_calls>>
priceVars == <<trade_data, quote_data, price_call>>
hoursVars == <<config_py, FORCE_MARKET_OPEN, now_et, market_status, is_open>>
traderVars == <<trader, run_result>>
processVars == <<supervisor, databases>>
floorVars == <<schedule, traderVars, cycle, processVars>>

vars == <<balance, strategy, holdings, transactions, portfolio_value_time_series,
          db, market, now, last, nops, other, raw_api_calls, reply, requests, save_calls,
          trade_data, quote_data, price_call, config_py, FORCE_MARKET_OPEN, now_et,
          market_status, is_open, schedule, trader, run_result, cycle,
          supervisor, databases>>

----------------------------------------------------------------------------
(* Bounds and input sets *)

MaxOps == 2
MaxTime == 1
MaxCalls == 3
MaxClock == 3
TTL == 2

Symbols == {"AAPL"}
NoSymbol == ""
Prices == {0, 200}
Quantities == {-50, 0, 10, 50}
Amounts == {-1000, 0, 20000}
PyNone == "<None>"
Rationales == {"test", PyNone}
Strategies == {"value"}

----------------------------------------------------------------------------
(* Constants of accounts.py *)

Dollars(d) == d * 1000

INITIAL_BALANCE == Dollars(10000)

\* SPREAD = 0.002, in thousandths
SPREAD == 2

----------------------------------------------------------------------------
(* dict helpers for holdings *)

EmptyDict == [x \in {} |-> 0]

DictGet(h, s) == IF s \in DOMAIN h THEN h[s] ELSE 0

DictSet(h, s, v) == [x \in (DOMAIN h) \cup {s} |-> IF x = s THEN v ELSE h[x]]

DictDel(h, s) == [x \in (DOMAIN h) \ {s} |-> h[x]]

----------------------------------------------------------------------------
(* The Account object as a record, and its stored row *)

Account(b, st, h, tx, pv) ==
    [balance |-> b, strategy |-> st, holdings |-> h, transactions |-> tx,
     portfolio_value_time_series |-> pv]

Self == Account(balance, strategy, holdings, transactions, portfolio_value_time_series)

\* The row written by save: the columns and the JSON text of the three
\* collections (json.dumps keeps keys, counts, order and every field).
Row(a) ==
    [balance |-> a.balance, strategy |-> a.strategy, holdings |-> a.holdings,
     transactions |-> a.transactions, portfolio_history |-> a.portfolio_value_time_series]

\* The Account built by Account.get from a row (json.loads, Transaction(**t)).
FromRow(r) ==
    Account(r.balance, r.strategy, r.holdings, r.transactions, r.portfolio_history)

\* Account.save: one upsert of the whole snapshot; an exception raised by the
\* connection, the statement or the commit is caught and printed.
save(a, d, dbOk) == IF dbOk THEN <<Row(a)>> ELSE d

get_current_price(mkt, symbol) == mkt[symbol]

RECURSIVE SumHoldings(_, _, _)
SumHoldings(h, mkt, S) ==
    IF S = {} THEN 0
    ELSE LET s == CHOOSE x \in S : TRUE
         IN  Dollars(get_current_price(mkt, s)) * h[s] + SumHoldings(h, mkt, S \ {s})

\* a bug that would give up the holdings' value when one symbol has no price
calculate_portfolio_value_all_priced(a, mkt) ==
    IF \E s \in DOMAIN a.holdings : get_current_price(mkt, s) = 0
    THEN a.balance
    ELSE a.balance + SumHoldings(a.holdings, mkt, DOMAIN a.holdings)

calculate_portfolio_value(a, mkt) == a.balance + SumHoldings(a.holdings, mkt, DOMAIN a.holdings)

\* Account.report up to its save: append a sample unconditionally, save.
report(a, d, mkt, t, dbOk) ==
    LET a2 == [a EXCEPT !.portfolio_value_time_series =
                            Append(@, <<t, calculate_portfolio_value(a, mkt)>>)]
    IN  [acct |-> a2, db |-> save(a2, d, dbOk)]

\* Account.update_portfolio_value_series: append and save only when the
\* timestamp differs from the last one.
update_portfolio_value_series(a, d, mkt, t, dbOk) ==
    LET pv == a.portfolio_value_time_series
    IN  IF pv = <<>> \/ pv[Len(pv)][1] # t
        THEN LET a2 == [a EXCEPT !.portfolio_value_time_series =
                                     Append(@, <<t, calculate_portfolio_value(a, mkt)>>)]
             IN  [acct |-> a2, db |-> save(a2, d, dbOk)]
        ELSE [acct |-> a, db |-> d]

----------------------------------------------------------------------------
(* Transaction *)

\* pydantic validation of Transaction(...): rationale must be a str
ValidTransaction(symbol, quantity, rationale) == rationale # PyNone

Transaction(symbol, quantity, price, timestamp, rationale) ==
    [symbol |-> symbol, quantity |-> quantity, price |-> price,
     timestamp |-> timestamp, rationale |-> rationale]

\* a bug that would put the new record first
AppendTransactionAtHead(tx, t) == <<t>> \o tx

AppendTransaction(tx, t) == Append(tx, t)

----------------------------------------------------------------------------
(* Ledger operations: each yields the account, the stored rows and the result *)

Outcome(a, d, res, price, failed) ==
    [acct |-> a, db |-> d, result |-> res, price |-> price, saveFailed |-> failed]

deposit(a, d, amount, dbOk) ==
    IF amount <= 0 THEN Outcome(a, d, "InvalidAmount", 0, FALSE)
    ELSE LET a2 == [a EXCEPT !.balance = @ + amount]
         IN  Outcome(a2, save(a2, d, dbOk), "ok", 0, ~dbOk)

withdraw(a, d, amount, dbOk) ==
    IF amount > a.balance THEN Outcome(a, d, "InsufficientFunds", 0, FALSE)
    ELSE LET a2 == [a EXCEPT !.balance = @ - amount]
         IN  Outcome(a2, save(a2, d, dbOk), "ok", 0, ~dbOk)

\* a bug that would charge the quoted price, without the spread
BuyPriceNoSpread(price) == price * 1000

BuyPrice(price) == price * (1000 + SPREAD)

SellPrice(price) == price * (1000 - SPREAD)

buy_shares(a, d, mkt, t, symbol, quantity, rationale, dbOk1, dbOk2) ==
    LET price == get_current_price(mkt, symbol)
        buy_price == BuyPrice(price)
        total_cost == buy_price * quantity
        h2 == DictSet(a.holdings, symbol, DictGet(a.holdings, symbol) + quantity)
    IN  IF price = 0 THEN Outcome(a, d, "PriceUnavailable", price, FALSE)
        ELSE IF total_cost > a.balance THEN Outcome(a, d, "InsufficientFunds", price, FALSE)
        ELSE IF ~ValidTransaction(symbol, quantity, rationale)
             THEN Outcome([a EXCEPT !.holdings = h2], d, "ValidationError", price, FALSE)
        ELSE LET a3 == [a EXCEPT !.holdings = h2,
                                 !.transactions = AppendTransaction(@,
                                     Transaction(symbol, quantity, buy_price, t, rationale)),
                                 !.balance = @ - total_cost]
                 d3 == save(a3, d, dbOk1)
                 r == report(a3, d3, mkt, t, dbOk2)
             IN  Outcome(r.acct, r.db, "ok", price, ~dbOk1 \/ ~dbOk2)

\* a bug that would turn the comparison round
InsufficientSharesReversed(h, symbol, quantity) == DictGet(h, symbol) > quantity

InsufficientShares(h, symbol, quantity) == DictGet(h, symbol) < quantity

\* a bug that would keep a sold-out symbol in the dict with count 0
HoldingsAfterSellKeepsKey(h, symbol, quantity) ==
    DictSet(h, symbol, h[symbol] - quantity)

HoldingsAfterSell(h, symbol, quantity) ==
    LET h2 == DictSet(h, symbol, h[symbol] - quantity)
    IN  IF h2[symbol] = 0 THEN DictDel(h2, symbol) ELSE h2

sell_shares(a, d, mkt, t, symbol, quantity, rationale, dbOk1, dbOk2) ==
    LET price == get_current_price(mkt, symbol)
        sell_price == SellPrice(price)
        total_proceeds == sell_price * quantity
    IN  IF InsufficientShares(a.holdings, symbol, quantity)
        THEN Outcome(a, d, "InsufficientShares", 0, FALSE)
        ELSE IF price = 0 THEN Outcome(a, d, "PriceUnavailable", price, FALSE)
        ELSE IF symbol \notin DOMAIN a.holdings THEN Outcome(a, d, "KeyError", price, FALSE)
        ELSE LET h2 == HoldingsAfterSell(a.holdings, symbol, quantity)
             IN  IF ~ValidTransaction(symbol, -quantity, rationale)
                 THEN Outcome([a EXCEPT !.holdings = h2], d, "ValidationError", price, FALSE)
                 ELSE LET a3 == [a EXCEPT !.holdings = h2,
                                          !.transactions = AppendTransaction(@,
                                              Transaction(symbol, -quantity, sell_price, t, rationale)),
                                          !.balance = @ + total_proceeds]
                          d3 == save(a3, d, dbOk1)
                          r == report(a3, d3, mkt, t, dbOk2)
                      IN  Outcome(r.acct, r.db, "ok", price, ~dbOk1 \/ ~dbOk2)

reset(a, d, newStrategy, dbOk) ==
    LET a2 == Account(INITIAL_BALANCE, newStrategy, EmptyDict, <<>>, <<>>)
    IN  Outcome(a2, save(a2, d, dbOk), "ok", 0, ~dbOk)

\* Account.get: the stored row when the read returns one; otherwise (no row,
\* or the read raised) a default account, which records its first valuation
\* sample and is thereby saved.
get(d, mkt, t, readOk, dbOk) ==
    IF readOk /\ d # <<>>
    THEN Outcome(FromRow(d[1]), d, "loaded", 0, FALSE)
    ELSE LET a0 == Account(INITIAL_BALANCE, "", EmptyDict, <<>>, <<>>)
             r == update_portfolio_value_series(a0, d, mkt, t, dbOk)
         IN  Outcome(r.acct, r.db, "created", 0, ~dbOk)

----------------------------------------------------------------------------
(* Trader.execute_decision *)

max_affordable(bal, current_price) ==
    IF current_price > 0 THEN bal \div Dollars(current_price) ELSE 0

Min(x, y) == IF x < y THEN x ELSE y

\* yields the ledger outcome plus the kind of message returned and the
\* ledger call made (with the quantity passed to it)
execute_decision(a, d, mkt, t, dec, dbOk1, dbOk2) ==
    LET none == Outcome(a, d, "none", 0, FALSE)
        Msg(o, m, c, q) == [out |-> o, message |-> m, call |-> c, qty |-> q]
    IN  IF dec.decision = "HOLD" THEN Msg(none, "No trades executed", "none", 0)
        ELSE IF dec.decision = "BUY" /\ dec.symbol # NoSymbol /\ dec.quantity > 0
        THEN LET current_price == get_current_price(mkt, dec.symbol)
                 m == max_affordable(a.balance, current_price)
                 actual_quantity == Min(dec.quantity, m)
                 o == buy_shares(a, d, mkt, t, dec.symbol, actual_quantity, dec.rationale,
                                 dbOk1, dbOk2)
             IN  IF m = 0 THEN Msg(none, "Cannot afford any shares", "none", 0)
                 ELSE IF o.result # "ok"
                      THEN Msg(o, "Trade execution failed", "buy_shares", actual_quantity)
                 ELSE IF actual_quantity < dec.quantity
                      THEN Msg(o, "BUY executed (partial)", "buy_shares", actual_quantity)
                 ELSE Msg(o, "BUY executed", "buy_shares", actual_quantity)
        ELSE IF dec.decision = "SELL" /\ dec.symbol # NoSymbol /\ dec.quantity > 0
        THEN LET o == sell_shares(a, d, mkt, t, dec.symbol, dec.quantity, dec.rationale,
                                  dbOk1, dbOk2)
             IN  IF o.result # "ok"
                 THEN Msg(o, "Trade execution failed", "sell_shares", dec.quantity)
                 ELSE Msg(o, "SELL executed", "sell_shares", dec.quantity)
        ELSE Msg(none, "Invalid decision parameters", "none", 0)

----------------------------------------------------------------------------
(* State machine *)

Last(op, call, decision, sym, req, qty, o, message) ==
    [op |-> op, call |-> call, decision |-> decision, sym |-> sym, req |-> req,
     qty |-> qty, price |-> o.price, result |-> o.result,
     saveFailed |-> o.saveFailed, message |-> message]

\* between two operations: the caller has taken the result of the last one
Idle ==
    [op |-> "idle", call |-> "none", decision |-> "", sym |-> NoSymbol, req |-> 0,
     qty |-> 0, price |-> 0, result |-> "none", saveFailed |-> FALSE, message |-> ""]

\* the parts of the state that the ledger leaves alone
GatewayIdle ==
    /\ raw_api_calls = <<>>
    /\ reply = <<>>
    /\ requests = 0
    /\ save_calls = {}

PriceIdle ==
    /\ trade_data = <<>>
    /\ quote_data = <<>>
    /\ price_call = <<>>

HoursIdle ==
    /\ config_py = "False"
    /\ FORCE_MARKET_OPEN = FALSE
    /\ now_et = [weekday |-> 0, hour |-> 9, minute |-> 0]
    /\ market_status = [polygon |-> "closed", alpha_vantage |-> "closed"]
    /\ is_open = <<>>

TraderIdle ==
    /\ trader = ""
    /\ run_result = <<>>

ProcessIdle ==
    /\ supervisor = <<>>
    /\ databases = <<>>

FloorIdle ==
    /\ schedule = <<>>
    /\ TraderIdle
    /\ cycle = <<>>
    /\ ProcessIdle

\* The trader's account right after its first lookup: Account.get found no
\* row, built the default account and recorded its first sample; the save of
\* that sample went through or failed.
Init ==
    /\ market = [s \in Symbols |-> 200]
    /\ now = 0
    /\ \E dbOk \in BOOLEAN :
          LET o == get(<<>>, [s \in Symbols |-> 200], 0, TRUE, dbOk)
          IN  /\ balance = o.acct.balance
              /\ strategy = o.acct.strategy
              /\ holdings = o.acct.holdings
              /\ transactions = o.acct.transactions
              /\ portfolio_value_time_series = o.acct.portfolio_value_time_series
              /\ db = o.db
    /\ last = Idle
    /\ nops = 0
    /\ other = <<>>
    /\ GatewayIdle
    /\ PriceIdle
    /\ HoursIdle
    /\ FloorIdle

Apply(o, l) ==
    /\ nops < MaxOps
    /\ balance' = o.acct.balance
    /\ strategy' = o.acct.strategy
    /\ holdings' = o.acct.holdings
    /\ transactions' = o.acct.transactions
    /\ portfolio_value_time_series' = o.acct.portfolio_value_time_series
    /\ db' = o.db
    /\ last' = l
    /\ nops' = nops + 1
    /\ UNCHANGED <<market, now, other, gatewayVars, priceVars, hoursVars, floorVars>>

Deposit ==
    \E amount \in Amounts, dbOk \in BOOLEAN :
        LET o == deposit(Self, db, Dollars(amount), dbOk)
        IN  /\ last = Idle
            /\ Apply(o, Last("deposit", "deposit", "", NoSymbol, amount, amount, o, ""))

Withdraw ==
    \E amount \in Amounts, dbOk \in BOOLEAN :
        LET o == withdraw(Self, db, Dollars(amount), dbOk)
        IN  /\ last = Idle
            /\ Apply(o, Last("withdraw", "withdraw", "", NoSymbol, amount, amount, o, ""))

BuyShares ==
    \E symbol \in Symbols, quantity \in Quantities, rationale \in Rationales,
       dbOk1 \in BOOLEAN, dbOk2 \in BOOLEAN :
        LET o == buy_shares(Self, db, market, now, symbol, quantity, rationale, dbOk1, dbOk2)
        IN  /\ last = Idle
            /\ Apply(o, Last("buy_shares", "buy_shares", "", symbol, quantity, quantity, o, ""))

SellShares ==
    \E symbol \in Symbols, quantity \in Quantities, rationale \in Rationales,
       dbOk1 \in BOOLEAN, dbOk2 \in BOOLEAN :
        LET o == sell_shares(Self, db, market, now, symbol, quantity, rationale, dbOk1, dbOk2)
        IN  /\ last = Idle
            /\ Apply(o, Last("sell_shares", "sell_shares", "", symbol, quantity, quantity, o, ""))

\* the decisions handed to execute_decision: a HOLD names no trade, a BUY or a
\* SELL names a symbol (or leaves it out) and a quantity
DecisionInputs ==
    {[decision |-> "HOLD", symbol |-> NoSymbol, quantity |-> 0, rationale |-> "test"]}
    \cup [decision : {"BUY", "SELL"}, symbol : {NoSymbol}, quantity : {10},
          rationale : {"test"}]
    \cup [decision : {"BUY", "SELL"}, symbol : Symbols, quantity : Quantities,
          rationale : Rationales]

ExecuteDecision ==
    \E dec \in DecisionInputs, dbOk1 \in BOOLEAN, dbOk2 \in BOOLEAN :
        LET e == execute_decision(Self, db, market, now, dec, dbOk1, dbOk2)
        IN  /\ last = Idle
            /\ Apply(e.out, Last("execute_decision", e.call, dec.decision, dec.symbol,
                              dec.quantity, e.qty, e.out, e.message))

Reset ==
    \E newStrategy \in Strategies, dbOk \in BOOLEAN :
        LET o == reset(Self, db, newStrategy, dbOk)
        IN  /\ last = Idle
            /\ Apply(o, Last("reset", "reset", "", NoSymbol, 0, 0, o, ""))

Get ==
    \E readOk \in BOOLEAN, dbOk \in BOOLEAN :
        LET o == get(db, market, now, readOk, dbOk)
        IN  /\ last = Idle
            /\ Apply(o, Last("get", "get", "", NoSymbol, 0, 0, o, ""))

UpdatePortfolioValueSeries ==
    \E dbOk \in BOOLEAN :
        LET r == update_portfolio_value_series(Self, db, market, now, dbOk)
            o == Outcome(r.acct, r.db, "ok", 0, ~dbOk)
        IN  /\ last = Idle
            /\ Apply(o, Last("update_portfolio_value_series", "update_portfolio_value_series",
                          "", NoSymbol, 0, 0, o, ""))

Report ==
    \E dbOk \in BOOLEAN :
        LET r == report(Self, db, market, now, dbOk)
            o == Outcome(r.acct, r.db, "ok", 0, ~dbOk)
        IN  /\ last = Idle
            /\ Apply(o, Last("report", "report", "", NoSymbol, 0, 0, o, ""))

\* the market moves: get_current_price resolves another value for one symbol
MarketMove ==
    \E s \in DOMAIN market, p \in Prices :
        /\ last = Idle
        /\ p # market[s]
        /\ market' = [market EXCEPT ![s] = p]
        /\ UNCHANGED <<accountVars, db, now, last, nops, other,
                       gatewayVars, priceVars, hoursVars, floorVars>>

\* a second passes
Tick ==
    /\ last = Idle
    /\ now < MaxTime
    /\ now' = now + 1
    /\ UNCHANGED <<accountVars, db, market, last, nops, other,
                   gatewayVars, priceVars, hoursVars, floorVars>>

\* the caller takes the result and goes on
Return ==
    /\ last # Idle
    /\ last' = Idle
    /\ UNCHANGED <<accountVars, db, market, now, nops, other,
                   gatewayVars, priceVars, hoursVars, floorVars>>

Next ==
    \/ Deposit
    \/ Withdraw
    \/ BuyShares
    \/ SellShares
    \/ ExecuteDecision
    \/ Reset
    \/ Get
    \/ UpdatePortfolioValueSeries
    \/ Report
    \/ MarketMove
    \/ Tick
    \/ Return

Spec == Init /\ [][Next]_vars

\* the four ledger calls alone
NextLedger ==
    \/ Deposit
    \/ Withdraw
    \/ BuyShares
    \/ SellShares
    \/ MarketMove
    \/ Tick
    \/ Return

SpecLedger == Init /\ [][NextLedger]_vars

----------------------------------------------------------------------------
(* A second Account object of the same trader.  The trading floor keeps    *)
(* the object it loaded in Trader.__init__ for a whole cycle; the API      *)
(* server, in another thread of the same process, loads its own in         *)
(* test_save_data, changes it and saves it.                                *)

\* Account.save of an object changed as test_save_data changes it
\* (lines 199-202), then the fresh lookup of line 205, whose object is dropped
test_save_data(a, d, mkt, t, dbOk, readOk, dbOk2) ==
    LET a2 == [a EXCEPT !.balance = @ - Dollars(1)]
        d2 == save(a2, d, dbOk)
        fresh == get(d2, mkt, t, readOk, dbOk2)
    IN  Outcome(a2, fresh.db, "ok", 0, ~dbOk)

ApplyOther(o, l) ==
    /\ nops < MaxOps
    /\ other' = <<o.acct>>
    /\ db' = o.db
    /\ last' = l
    /\ nops' = nops + 1
    /\ UNCHANGED <<accountVars, market, now, gatewayVars, priceVars, hoursVars, floorVars>>

\* line 195 of test_save_data: account = get_trader_account(name); the
\* lookup is not counted among the operations
OtherGet ==
    \E readOk \in BOOLEAN, dbOk \in BOOLEAN :
        LET o == get(db, market, now, readOk, dbOk)
        IN  /\ last = Idle
            /\ other = <<>>
            /\ other' = <<o.acct>>
            /\ db' = o.db
            /\ last' = Last("other_get", "get", "", NoSymbol, 0, 0, o, "")
            /\ UNCHANGED <<accountVars, market, now, nops, gatewayVars, priceVars,
                           hoursVars, floorVars>>

\* lines 199-205 of test_save_data, on the object loaded at line 195; the
\* request ends and its object is gone
OtherTestSaveData ==
    \E dbOk \in BOOLEAN, readOk \in BOOLEAN, dbOk2 \in BOOLEAN :
        LET o == test_save_data(other[1], db, market, now, dbOk, readOk, dbOk2)
        IN  /\ last = Idle
            /\ other # <<>>
            /\ nops < MaxOps
            /\ other' = <<>>
            /\ db' = o.db
            /\ last' = Last("test_save_data", "save", "", NoSymbol, 0, 0, o, "")
            /\ nops' = nops + 1
            /\ UNCHANGED <<accountVars, market, now, gatewayVars, priceVars, hoursVars, floorVars>>

\* a trade made through the second object
OtherBuyShares ==
    \E symbol \in Symbols, quantity \in Quantities, rationale \in Rationales,
       dbOk1 \in BOOLEAN, dbOk2 \in BOOLEAN :
        LET o == buy_shares(other[1], db, market, now, symbol, quantity, rationale,
                            dbOk1, dbOk2)
        IN  /\ last = Idle
            /\ other # <<>>
            /\ ApplyOther(o, Last("other_buy_shares", "buy_shares", "", symbol,
                                   quantity, quantity, o, ""))

NextTwoObjects ==
    \/ BuyShares
    \/ SellShares
    \/ OtherGet
    \/ OtherTestSaveData
    \/ OtherBuyShares
    \/ Tick
    \/ Return

SpecTwoObjects == Init /\ [][NextTwoObjects]_vars

----------------------------------------------------------------------------
(* Valuation of an account that holds several symbols *)

Portfolio == {"AAPL", "MSFT", "TSLA"}

\* the account after buying 10 shares of each symbol of S at 200
RECURSIVE Bought(_, _)
Bought(o, S) ==
    IF S = {} THEN o
    ELSE LET s == CHOOSE x \in S : TRUE
             b == buy_shares(o.acct, o.db, [x \in Portfolio |-> 200], 0, s, 10, "test",
                             TRUE, TRUE)
         IN  Bought(b, S \ {s})

InitValuation ==
    /\ market \in [Portfolio -> Prices]
    /\ now = 0
    /\ \E S \in SUBSET Portfolio :
          LET o == Bought(get(<<>>, [x \in Portfolio |-> 200], 0, TRUE, TRUE), S)
          IN  /\ Cardinality(S) >= 2
              /\ balance = o.acct.balance
              /\ strategy = o.acct.strategy
              /\ holdings = o.acct.holdings
              /\ transactions = o.acct.transactions
              /\ portfolio_value_time_series = o.acct.portfolio_value_time_series
              /\ db = o.db
    /\ last = Idle
    /\ nops = 0
    /\ other = <<>>
    /\ GatewayIdle
    /\ PriceIdle
    /\ HoursIdle
    /\ FloorIdle

NextValuation ==
    \/ UpdatePortfolioValueSeries
    \/ Report
    \/ MarketMove
    \/ Tick
    \/ Return

SpecValuation == InitValuation /\ [][NextValuation]_vars

----------------------------------------------------------------------------
(* get_current_price, from the answers of the provider.  Prices of this    *)
(* section are in thousandths of a dollar, so that a mid-point is whole.   *)

\* an answer of get_last_trade / get_last_quote: the call raised, or it
\* returned a dict with a status and, possibly, results
Raised == [raises |-> TRUE, status |-> "", results |-> <<>>]
Answer(status, results) == [raises |-> FALSE, status |-> status, results |-> results]

\* results of a last trade: "p" is the price; a results dict without "p"
\* reads as 0 through .get("p", 0) and is not told apart from "p": 0
TradeAnswers ==
    {Raised, Answer("NOT_FOUND", <<>>), Answer("OK", <<>>)}
    \cup {Answer("OK", <<[p |-> n]>>) : n \in {0, Dollars(200)}}

\* results of a last quote: "p" is the bid, "P" the ask
QuoteAnswers ==
    {Raised, Answer("NOT_FOUND", <<>>), Answer("OK", <<>>)}
    \cup {Answer("OK", <<[p |-> b, P |-> a]>>) :
             b \in {0, Dollars(199)}, a \in {0, Dollars(200)}}

\* the body of get_current_price: an exception of either call ends in the
\* except clause, which returns 0
get_current_price_polygon(trade, quote) ==
    IF trade.raises THEN 0
    ELSE IF trade.status = "OK" /\ trade.results # <<>>
    THEN trade.results[1].p
    ELSE IF quote.raises THEN 0
    ELSE IF quote.status = "OK" /\ quote.results # <<>>
    THEN LET bid == quote.results[1].p
             ask == quote.results[1].P
         IN  IF bid > 0 /\ ask > 0 THEN (bid + ask) \div 2 ELSE 0
    ELSE 0

NoCall == <<>>

InitPrice ==
    /\ trade_data \in TradeAnswers
    /\ quote_data \in QuoteAnswers
    /\ price_call = NoCall
    /\ balance = 0
    /\ strategy = ""
    /\ holdings = EmptyDict
    /\ transactions = <<>>
    /\ portfolio_value_time_series = <<>>
    /\ db = <<>>
    /\ market = [s \in Symbols |-> 0]
    /\ now = 0
    /\ last = Idle
    /\ nops = 0
    /\ other = <<>>
    /\ GatewayIdle
    /\ HoursIdle
    /\ FloorIdle

GetCurrentPrice ==
    /\ price_call' = [trade |-> trade_data, quote |-> quote_data,
                      returned |-> get_current_price_polygon(trade_data, quote_data)]
    /\ UNCHANGED <<accountVars, db, market, now, last, nops, other, gatewayVars,
                   trade_data, quote_data, hoursVars, floorVars>>

\* another trade is made on the exchange, or the request starts to fail
TradeChanges ==
    \E t \in TradeAnswers :
        /\ t # trade_data
        /\ trade_data' = t
        /\ UNCHANGED <<accountVars, db, market, now, last, nops, other, gatewayVars,
                       quote_data, price_call, hoursVars, floorVars>>

QuoteChanges ==
    \E q \in QuoteAnswers :
        /\ q # quote_data
        /\ quote_data' = q
        /\ UNCHANGED <<accountVars, db, market, now, last, nops, other, gatewayVars,
                       trade_data, price_call, hoursVars, floorVars>>

NextPrice ==
    \/ GetCurrentPrice
    \/ TradeChanges
    \/ QuoteChanges

SpecPrice == InitPrice /\ [][NextPrice]_vars

----------------------------------------------------------------------------
(* The raw_api_calls table (database.py) and the request path of the two   *)
(* clients that caches in it (polygon.py, alpha_vantage.py).  The clock of *)
(* the process is taken to be UTC, as CURRENT_TIMESTAMP is.                *)

\* The calls made: provider, function name and the params dict, written as
\* the sequence of its items in insertion order.
ApiCalls ==
    { [provider |-> "polygon", function_name |-> "AAPL", params |-> <<>>],
      [provider |-> "alpha_vantage", function_name |-> "NEWS_SENTIMENT",
       params |-> << <<"function", "NEWS_SENTIMENT">>, <<"limit", "20">> >>],
      [provider |-> "alpha_vantage", function_name |-> "NEWS_SENTIMENT",
       params |-> << <<"limit", "20">>, <<"function", "NEWS_SENTIMENT">> >>] }

\* md5 of json.dumps(params, sort_keys=True): the items whatever their order
generate_params_hash(params) == {params[i] : i \in DOMAIN params}

CacheKey(c) == <<c.provider, c.function_name, generate_params_hash(c.params)>>

RowKey(r) == <<r.provider, r.function_name, r.parameters_hash>>

\* check_api_cache once the query has run: the successful row of the key
\* that is younger than the ttl, with its age and id, or None (<<>>)
check_api_cache(rows, c, cache_ttl_seconds, t) ==
    LET cutoff_time == t - cache_ttl_seconds
        found == {i \in DOMAIN rows : /\ RowKey(rows[i]) = CacheKey(c)
                                      /\ rows[i].created_at > cutoff_time
                                      /\ rows[i].success}
    IN  IF found = {} THEN <<>>
        ELSE LET i == CHOOSE x \in found :
                          \A y \in found : rows[y].created_at <= rows[x].created_at
             IN  <<[response_data |-> rows[i].response_data,
                    cache_age |-> t - rows[i].created_at,
                    api_call_id |-> i]>>

\* what the storage does to a statement
StorageOutcomes == {"ok", "statement_error", "connect_error"}

\* UNIQUE(provider, function_name, parameters_hash)
ViolatesUnique(rows, c) == \E i \in DOMAIN rows : RowKey(rows[i]) = CacheKey(c)

\* save_api_call: a plain INSERT; an exception of the statement or the
\* commit (the constraint included) is caught and a dummy id returned, an
\* exception of the connection is raised to the caller
save_api_call(rows, c, response_data, success, t, storage) ==
    IF storage = "connect_error" THEN [rows |-> rows, raises |-> TRUE]
    ELSE IF storage = "statement_error" \/ ViolatesUnique(rows, c)
    THEN [rows |-> rows, raises |-> FALSE]
    ELSE [rows |-> Append(rows, [provider |-> c.provider,
                                 function_name |-> c.function_name,
                                 parameters_hash |-> generate_params_hash(c.params),
                                 response_data |-> response_data,
                                 success |-> success,
                                 created_at |-> t]),
          raises |-> FALSE]

SaveCall(c, success, t, storage) ==
    [key |-> CacheKey(c), success |-> success, at |-> t, storage |-> storage]

\* what the network call of a cache miss ends in: data returned, a
\* requests exception (connection, timeout, HTTP status), a body that is not
\* JSON, or data in which the provider reports an error
UpstreamOutcomes == {"ok", "network_error", "parse_error", "provider_error"}

\* response.json() on a body that is not JSON raises a RequestException in
\* the releases of requests that derive JSONDecodeError from it and a plain
\* ValueError in the older ones: jsonIsRequestException tells which
CaughtAsRequestException(upstream, jsonIsRequestException) ==
    \/ upstream = "network_error"
    \/ upstream = "parse_error" /\ jsonIsRequestException

\* a call on the cache path and how it ended: what was returned or raised,
\* whether the network was asked, and which save_api_call call it made
Reply(op, c, t, result, age, network, raises, readOk, storage, saved) ==
    [op |-> op, key |-> CacheKey(c), at |-> t, result |-> result, age |-> age,
     network |-> network, raises |-> raises, readOk |-> readOk, storage |-> storage,
     saved |-> saved]

NoReply == <<>>

\* _make_request of either client
make_request(rows, c, cache_ttl, t, readOk, upstream, jsonIsRequestException, storage) ==
    LET cache_result == check_api_cache(rows, c, cache_ttl, t)
        ok == save_api_call(rows, c, "data", TRUE, t, storage)
        failed == save_api_call(rows, c, "{}", FALSE, t, storage)
        R(result, age, network, raises, saved) ==
            Reply("make_request", c, t, result, age, network, raises, readOk, storage, saved)
    IN  IF ~readOk
        THEN [rows |-> rows, saves |-> {},
              reply |-> R("storage_error", 0, "none", TRUE, "none")]
        ELSE IF cache_result # <<>>
        THEN [rows |-> rows, saves |-> {},
              reply |-> R("hit", cache_result[1].cache_age, "none", FALSE, "none")]
        ELSE IF upstream = "ok"
        THEN [rows |-> ok.rows, saves |-> {SaveCall(c, TRUE, t, storage)},
              reply |-> R(IF ok.raises THEN "storage_error" ELSE "fetched", 0, upstream,
                          ok.raises, "true")]
        ELSE IF CaughtAsRequestException(upstream, jsonIsRequestException)
        THEN [rows |-> failed.rows, saves |-> {SaveCall(c, FALSE, t, storage)},
              reply |-> R("request_failed", 0, upstream, TRUE, "false")]
        ELSE [rows |-> rows, saves |-> {},
              reply |-> R("error", 0, upstream, TRUE, "none")]

InitGateway ==
    /\ raw_api_calls = <<>>
    /\ reply = NoReply
    /\ requests = 0
    /\ save_calls = {}
    /\ now = 0
    /\ balance = 0
    /\ strategy = ""
    /\ holdings = EmptyDict
    /\ transactions = <<>>
    /\ portfolio_value_time_series = <<>>
    /\ db = <<>>
    /\ market = [s \in Symbols |-> 0]
    /\ last = Idle
    /\ nops = 0
    /\ other = <<>>
    /\ PriceIdle
    /\ HoursIdle
    /\ FloorIdle

MakeRequest ==
    \E c \in ApiCalls, readOk \in BOOLEAN, upstream \in UpstreamOutcomes,
       jsonIsRequestException \in BOOLEAN, storage \in StorageOutcomes :
        LET r == make_request(raw_api_calls, c, TTL, now, readOk, upstream,
                              jsonIsRequestException, storage)
        IN  /\ requests < MaxCalls
            /\ raw_api_calls' = r.rows
            /\ reply' = r.reply
            /\ requests' = requests + 1
            /\ save_calls' = save_calls \cup r.saves
            /\ UNCHANGED <<accountVars, db, market, now, last, nops, other,
                           priceVars, hoursVars, floorVars>>

\* Database.save_api_call called on its own
SaveApiCall ==
    \E c \in ApiCalls, success \in BOOLEAN, storage \in StorageOutcomes :
        LET r == save_api_call(raw_api_calls, c, IF success THEN "data" ELSE "{}",
                               success, now, storage)
        IN  /\ Cardinality(save_calls) < MaxCalls
            /\ raw_api_calls' = r.rows
            /\ reply' = Reply("save_api_call", c, now,
                               IF r.raises THEN "storage_error" ELSE "saved", 0, "none",
                               r.raises, TRUE, storage,
                               IF success THEN "true" ELSE "false")
            /\ save_calls' = save_calls \cup {SaveCall(c, success, now, storage)}
            /\ UNCHANGED <<accountVars, db, market, now, last, nops, other, requests,
                           priceVars, hoursVars, floorVars>>

\* Database.check_api_cache called on its own; nothing catches an exception
\* of its connection or its query
CheckApiCache ==
    \E c \in ApiCalls, readOk \in BOOLEAN :
        LET r == check_api_cache(raw_api_calls, c, TTL, now)
            R(result, age) ==
                Reply("check_api_cache", c, now, result, age, "none", ~readOk, readOk,
                      "ok", "none")
        IN  /\ reply' = IF ~readOk THEN R("storage_error", 0)
                         ELSE IF r = <<>> THEN R("miss", 0)
                         ELSE R("hit", r[1].cache_age)
            /\ UNCHANGED <<accountVars, db, market, now, last, nops, other,
                           raw_api_calls, requests, save_calls, priceVars, hoursVars,
                           floorVars>>

\* a second passes on the clock of the cache
ClockTick ==
    /\ now < MaxClock
    /\ now' = now + 1
    /\ UNCHANGED <<accountVars, db, market, last, nops, other, gatewayVars,
                   priceVars, hoursVars, floorVars>>

NextCache ==
    \/ SaveApiCall
    \/ CheckApiCache
    \/ ClockTick

SpecCache == InitGateway /\ [][NextCache]_vars

NextGateway ==
    \/ MakeRequest
    \/ ClockTick

SpecGateway == InitGateway /\ [][NextGateway]_vars

----------------------------------------------------------------------------
(* Start-up configuration of the trading floor and is_market_open *)

\* config.py beside trading_floor.py: not there, or there and setting
\* FORCE_MARKET_OPEN to False (as shipped) or to True
ConfigFiles == {"absent", "False", "True"}

\* the module-level code of trading_floor.py that sets FORCE_MARKET_OPEN
LoadConfig(cfg) == IF cfg = "absent" THEN TRUE ELSE cfg = "True"

\* Eastern wall time: weekday (Monday = 0), hour and minute
EasternTimes == [weekday : 0..6, hour : {9, 16}, minute : {0, 30}]

\* what get_market_status of Polygon and the MARKET_STATUS query of Alpha
\* Vantage would answer: the market open, closed, or the call failing (for
\* Alpha Vantage "closed", a missing key and a failure all end in False)
StatusAnswers == [polygon : {"open", "closed", "fails"},
                  alpha_vantage : {"open", "fails"}]

\* a bug that would take Saturday for a trading day
IsWeekendSundayOnly(weekday) == weekday >= 6

IsWeekend(weekday) == weekday >= 5

\* 9.5 <= hour + minute / 60 <= 16.0, in minutes
InPotentialHours(t) == 570 <= t.hour * 60 + t.minute /\ t.hour * 60 + t.minute <= 960

is_market_open(force, t, status) ==
    IF force THEN [returned |-> TRUE, branch |-> "forced"]
    ELSE IF IsWeekend(t.weekday) THEN [returned |-> FALSE, branch |-> "weekend"]
    ELSE IF ~InPotentialHours(t) THEN [returned |-> FALSE, branch |-> "hours"]
    ELSE IF status.polygon # "fails"
    THEN [returned |-> status.polygon = "open", branch |-> "polygon"]
    ELSE [returned |-> status.alpha_vantage = "open", branch |-> "alpha_vantage"]

NotAsked == <<>>

\* the trading floor once trading_floor.py has been imported
InitHours ==
    /\ config_py \in ConfigFiles
    /\ FORCE_MARKET_OPEN = LoadConfig(config_py)
    /\ now_et \in EasternTimes
    /\ market_status \in StatusAnswers
    /\ is_open = NotAsked
    /\ balance = 0
    /\ strategy = ""
    /\ holdings = EmptyDict
    /\ transactions = <<>>
    /\ portfolio_value_time_series = <<>>
    /\ db = <<>>
    /\ market = [s \in Symbols |-> 0]
    /\ now = 0
    /\ last = Idle
    /\ nops = 0
    /\ other = <<>>
    /\ GatewayIdle
    /\ PriceIdle
    /\ FloorIdle

IsMarketOpen ==
    LET r == is_market_open(FORCE_MARKET_OPEN, now_et, market_status)
    IN  /\ is_open' = [at |-> now_et, status |-> market_status, returned |-> r.returned,
                        branch |-> r.branch]
        /\ UNCHANGED <<accountVars, db, market, now, last, nops, other, gatewayVars,
                       priceVars, config_py, FORCE_MARKET_OPEN, now_et, market_status,
                       floorVars>>

\* time passes until the next cycle
EasternClockMoves ==
    \E t \in EasternTimes :
        /\ t # now_et
        /\ now_et' = t
        /\ UNCHANGED <<accountVars, db, market, now, last, nops, other, gatewayVars,
                       priceVars, config_py, FORCE_MARKET_OPEN, market_status, is_open,
                       floorVars>>

StatusChanges ==
    \E st \in StatusAnswers :
        /\ st # market_status
        /\ market_status' = st
        /\ UNCHANGED <<accountVars, db, market, now, last, nops, other, gatewayVars,
                       priceVars, config_py, FORCE_MARKET_OPEN, now_et, is_open,
                       floorVars>>

NextHours ==
    \/ IsMarketOpen
    \/ EasternClockMoves
    \/ StatusChanges

SpecHours == InitHours /\ [][NextHours]_vars

----------------------------------------------------------------------------
(* The schedule of the traders: should_trade_now, should_rebalance_now and *)
(* the gate of run_trading_cycle, asked cycle after cycle.  Times of day   *)
(* are in minutes: hour + minute / 60 compared with 15.5 is hour * 60 +    *)
(* minute compared with 930.                                               *)

\* the names the schedule, the targets and the accounts are written for
TraderNames == {"warren", "camillo", "pavel", "flash"}

\* trader_names of create_traders
create_traders == <<"warren", "camillo", "pavel">>

CreatedTraders == {create_traders[i] : i \in DOMAIN create_traders}

MinuteOfDay(t) == t.hour * 60 + t.minute

Abs(x) == IF x < 0 THEN -x ELSE x

should_trade_now(trader_name, t) ==
    IF trader_name = "flash"
    THEN \E flash_hour \in {600, 780, 930} : Abs(MinuteOfDay(t) - flash_hour) <= 30
    ELSE IF trader_name \in {"warren", "camillo"}
    THEN 930 <= MinuteOfDay(t) /\ MinuteOfDay(t) <= 960
    ELSE FALSE

should_rebalance_now(trader_name, t) ==
    IF trader_name = "flash"
    THEN \E rebalance_hour \in {630, 810, 945} :
            Abs(MinuteOfDay(t) - rebalance_hour) <= 15
    ELSE IF trader_name \in {"warren", "camillo"}
    THEN 975 <= MinuteOfDay(t) /\ MinuteOfDay(t) <= 990
    ELSE FALSE

\* RUN_EVERY_N_MINUTES: 10 in config.py, 5 in the fallback values
RunEveryNMinutes(cfg) == IF cfg = "absent" THEN 5 ELSE 10

\* RUN_EVEN_WHEN_MARKET_IS_CLOSED is False in config.py and in the fallback
RUN_EVEN_WHEN_MARKET_IS_CLOSED == FALSE

\* the Eastern wall time some minutes later
Later(t, minutes) ==
    LET m == MinuteOfDay(t) + minutes
    IN  [weekday |-> IF m >= 1440 THEN (t.weekday + 1) % 7 ELSE t.weekday,
         hour |-> (m % 1440) \div 60,
         minute |-> m % 60]

CycleTimes == [weekday : 0..6, hour : 0..23, minute : {5 * k : k \in 0..11}]

Asleep == <<>>

\* the trading floor once imported, at any time of the week, with market-
\* status sources that answer "open" whenever they are asked
InitSchedule ==
    /\ config_py \in ConfigFiles
    /\ FORCE_MARKET_OPEN = LoadConfig(config_py)
    /\ now_et \in CycleTimes
    /\ market_status = [polygon |-> "open", alpha_vantage |-> "open"]
    /\ is_open = NotAsked
    /\ schedule = Asleep
    /\ TraderIdle
    /\ cycle = <<>>
    /\ ProcessIdle
    /\ balance = 0
    /\ strategy = ""
    /\ holdings = EmptyDict
    /\ transactions = <<>>
    /\ portfolio_value_time_series = <<>>
    /\ db = <<>>
    /\ market = [s \in Symbols |-> 0]
    /\ now = 0
    /\ last = Idle
    /\ nops = 0
    /\ other = <<>>
    /\ GatewayIdle
    /\ PriceIdle

\* a cycle starts: the gate of run_trading_cycle, and what the two schedule
\* functions answer for each name at this time
AskSchedule ==
    /\ schedule = Asleep
    /\ schedule' =
          [open |-> is_market_open(FORCE_MARKET_OPEN, now_et, market_status).returned
                    \/ RUN_EVEN_WHEN_MARKET_IS_CLOSED,
           answers |-> [n \in TraderNames |->
                          [trade |-> should_trade_now(n, now_et),
                           rebalance |-> should_rebalance_now(n, now_et)]]]
    /\ UNCHANGED <<accountVars, db, market, now, last, nops, other, gatewayVars,
                   priceVars, hoursVars, traderVars, cycle, processVars>>

\* await asyncio.sleep(RUN_EVERY_N_MINUTES * 60) of run_trading_floor
Sleep ==
    /\ schedule # Asleep
    /\ schedule' = Asleep
    /\ now_et' = Later(now_et, RunEveryNMinutes(config_py))
    /\ UNCHANGED <<accountVars, db, market, now, last, nops, other, gatewayVars,
                   priceVars, config_py, FORCE_MARKET_OPEN, market_status, is_open,
                   traderVars, cycle, processVars>>

NextSchedule ==
    \/ AskSchedule
    \/ Sleep

SpecSchedule == InitSchedule /\ [][NextSchedule]_vars

\* the loop of run_trading_floor never ends: each cycle is followed by its
\* sleep and each sleep by the next cycle
SpecScheduleFair == SpecSchedule /\ WF_vars(AskSchedule) /\ WF_vars(Sleep)

----------------------------------------------------------------------------
(* Trader.run: portfolio building, the schedule gate, and the decision that *)
(* is made and executed on the trader's account                             *)

StockList == <<"AAPL", "MSFT", "TSLA", "NVDA", "AMZN", "GOOG", "META", "JPM", "KO", "XOM">>

Stocks == {StockList[i] : i \in DOMAIN StockList}

\* the account, with its stored row, after Account.get on an empty table and
\* buy_shares of one share of each of the first n stocks at 200, all at time 0:
\* each buy adds its Transaction and the sample of its report
Holding(n) ==
    LET cost == BuyPrice(200)
        a == Account(INITIAL_BALANCE - n * cost, "",
                     [x \in {StockList[i] : i \in 1..n} |-> 1],
                     [i \in 1..n |-> Transaction(StockList[i], 1, cost, 0, "test")],
                     [i \in 1..(n + 1) |->
                         <<0, INITIAL_BALANCE - (i - 1) * cost + (i - 1) * Dollars(200)>>])
    IN  [acct |-> a, db |-> <<Row(a)>>]

\* portfolio_targets.get(self.name, 5)
portfolio_target(name) ==
    CASE name \in {"warren", "camillo"} -> 10
      [] name = "flash" -> 3
      [] OTHER -> 5

needs_portfolio_building(name, a) == Cardinality(DOMAIN a.holdings) < portfolio_target(name)

\* the names whose run is forced while the portfolio is being built
RunsForced(name) == name = "pavel"

\* a key that the decision returned by make_trading_decision does not have
NoKey == "<missing>"

\* what make_trading_decision can return: a HOLD, a BUY or a SELL with its
\* fields, or the parsed JSON object of a reply that has no "decision" key
TraderDecisions ==
    {[decision |-> "HOLD", symbol |-> NoSymbol, quantity |-> 0, rationale |-> "test"],
     [decision |-> NoKey, symbol |-> StockList[10], quantity |-> 10, rationale |-> "test"]}
    \cup [decision : {"BUY"}, symbol : {StockList[1], StockList[10]}, quantity : {0, 10},
          rationale : {"test"}]
    \cup [decision : {"SELL"}, symbol : {StockList[1]}, quantity : {1, 10},
          rationale : {"test"}]

max_attempts == 3

\* one execute_decision call as the caller sees it
Execution(e) == [message |-> e.message, result |-> e.out.result, call |-> e.call]

\* what Trader.run has done so far and, once it has returned, the string it
\* returned: the kind of string, the execute_decision results the string
\* carries, and whether it is one line.  While the portfolio building cycle
\* is between two attempts, returned is "" and attempt is the next attempt.
RunResult(needed, path, attempt, decisions, executions, returned, carries, one_line) ==
    [needed |-> needed, path |-> path, attempt |-> attempt, decisions |-> decisions,
     executions |-> executions, returned |-> returned, carries |-> carries,
     one_line |-> one_line, escaped |-> FALSE]

\* one attempt of run_portfolio_building_cycle: setup_agents, the decision,
\* and execute_decision when the decision is a BUY; what execute_decision
\* returns is printed, and counted in trades_made (the length of executions)
building_attempt(r, a, d, mkt, t, dec, agentsOk) ==
    IF ~agentsOk
    THEN [acct |-> a, db |-> d,
          result |-> [r EXCEPT !.returned = "Error during portfolio building"]]
    ELSE IF dec.decision = "BUY"
    THEN LET e == execute_decision(a, d, mkt, t, dec, TRUE, TRUE)
         IN  [acct |-> e.out.acct, db |-> e.out.db,
              result |-> [r EXCEPT !.attempt = @ + 1, !.decisions = @ + 1,
                                   !.executions = Append(@, Execution(e))]]
    ELSE [acct |-> a, db |-> d,
          result |-> [r EXCEPT !.attempt = @ + 1, !.decisions = @ + 1]]

\* the summary run_portfolio_building_cycle returns after its attempts
run_portfolio_building_cycle(name, r, a) ==
    [r EXCEPT !.returned =
        IF needs_portfolio_building(name, a)
        THEN "Portfolio building - made N trades (still building)"
        ELSE "Portfolio target reached! Made N trades this cycle."]

\* setup_agents, make_trading_decision and execute_decision in a row; the
\* string returned wraps the one execute_decision returned, which after a
\* fill ends with a line break and the report
decide_and_execute(needed, path, wrapper, a, d, mkt, t, dec, agentsOk) ==
    IF ~agentsOk
    THEN [acct |-> a, db |-> d,
          result |-> RunResult(needed, path, 0, 0, <<>>, "Error during trading", <<>>,
                               TRUE)]
    ELSE IF dec.decision = NoKey
    THEN [acct |-> a, db |-> d,
          result |-> RunResult(needed, path, 0, 1, <<>>, "Error during trading", <<>>,
                               TRUE)]
    ELSE LET e == execute_decision(a, d, mkt, t, dec, TRUE, TRUE)
         IN  [acct |-> e.out.acct, db |-> e.out.db,
              result |-> RunResult(needed, path, 0, 1, <<Execution(e)>>, wrapper,
                                   <<Execution(e)>>, e.out.result # "ok")]

\* Trader.run up to its return, or up to the first attempt of the portfolio
\* building cycle
run(name, a, d, mkt, t, t_et, dec, agentsOk) ==
    LET needed == needs_portfolio_building(name, a)
        is_rebalancing == should_rebalance_now(name, t_et)
        should_trade == should_trade_now(name, t_et)
    IN  IF needed /\ name \in {"warren", "camillo"}
        THEN [acct |-> a, db |-> d,
              result |-> RunResult(TRUE, "building_cycle", 1, 0, <<>>, "", <<>>, TRUE)]
        ELSE IF needed /\ RunsForced(name)
        THEN decide_and_execute(needed, "forced", "Portfolio building - result",
                                a, d, mkt, t, dec, agentsOk)
        ELSE IF ~(is_rebalancing \/ should_trade)
        THEN [acct |-> a, db |-> d,
              result |-> RunResult(needed, "not_scheduled", 0, 0, <<>>,
                                   "Not scheduled to trade/rebalance at this time",
                                   <<>>, TRUE)]
        ELSE decide_and_execute(needed, "scheduled",
                                IF is_rebalancing THEN "rebalancing completed - result"
                                ELSE "trading completed - result",
                                a, d, mkt, t, dec, agentsOk)

\* the holdings counts around the targets 3, 5 and 10
HoldingCounts == {2, 3, 4, 5, 9, 10}

TraderTimes ==
    {[weekday |-> 0, hour |-> 10, minute |-> 15], [weekday |-> 0, hour |-> 12, minute |-> 0],
     [weekday |-> 0, hour |-> 15, minute |-> 30], [weekday |-> 0, hour |-> 16, minute |-> 15]}

NotRun == <<>>

\* a trader whose account already holds some stocks, before a cycle
InitTrader ==
    /\ trader \in TraderNames
    /\ run_result = NotRun
    /\ market \in [Stocks -> {200}]
    /\ now = 0
    /\ \E n \in HoldingCounts :
          LET o == Holding(n)
          IN  /\ balance = o.acct.balance
              /\ strategy = o.acct.strategy
              /\ holdings = o.acct.holdings
              /\ transactions = o.acct.transactions
              /\ portfolio_value_time_series = o.acct.portfolio_value_time_series
              /\ db = o.db
    /\ last = Idle
    /\ nops = 0
    /\ other = <<>>
    /\ GatewayIdle
    /\ PriceIdle
    /\ config_py = "False"
    /\ FORCE_MARKET_OPEN = FALSE
    /\ now_et \in TraderTimes
    /\ market_status = [polygon |-> "open", alpha_vantage |-> "open"]
    /\ is_open = NotAsked
    /\ schedule = <<>>
    /\ cycle = <<>>
    /\ ProcessIdle

SetAccount(r) ==
    /\ balance' = r.acct.balance
    /\ strategy' = r.acct.strategy
    /\ holdings' = r.acct.holdings
    /\ transactions' = r.acct.transactions
    /\ portfolio_value_time_series' = r.acct.portfolio_value_time_series
    /\ db' = r.db

TraderRun ==
    \E dec \in TraderDecisions, agentsOk \in BOOLEAN :
        LET r == run(trader, Self, db, market, now, now_et, dec, agentsOk)
        IN  /\ run_result = NotRun
            /\ run_result' = r.result
            /\ SetAccount(r)
            /\ UNCHANGED <<market, now, last, nops, other, gatewayVars, priceVars,
                           hoursVars, schedule, trader, cycle, processVars>>

InBuildingCycle ==
    /\ run_result # NotRun
    /\ run_result.path = "building_cycle"
    /\ run_result.returned = ""

\* for attempt in range(max_attempts), unless the target is reached
BuildingAttempt ==
    \E dec \in TraderDecisions, agentsOk \in BOOLEAN :
        LET r == building_attempt(run_result, Self, db, market, now, dec, agentsOk)
        IN  /\ InBuildingCycle
            /\ run_result.attempt <= max_attempts
            /\ needs_portfolio_building(trader, Self)
            /\ run_result' = r.result
            /\ SetAccount(r)
            /\ UNCHANGED <<market, now, last, nops, other, gatewayVars, priceVars,
                           hoursVars, schedule, trader, cycle, processVars>>

\* the loop is over: the attempts are used up or the target is reached
BuildingReturns ==
    /\ InBuildingCycle
    /\ run_result.attempt > max_attempts \/ ~needs_portfolio_building(trader, Self)
    /\ run_result' = run_portfolio_building_cycle(trader, run_result, Self)
    /\ UNCHANGED <<accountVars, db, market, now, last, nops, other, gatewayVars,
                   priceVars, hoursVars, schedule, trader, cycle, processVars>>

\* the price of a stock changes before the cycle
TraderMarketMove ==
    \E s \in {StockList[1], StockList[10]}, p \in Prices :
        /\ run_result = NotRun
        /\ market[s] # p
        /\ market' = [market EXCEPT ![s] = p]
        /\ UNCHANGED <<accountVars, db, now, last, nops, other, gatewayVars, priceVars,
                       hoursVars, floorVars>>

NextTrader ==
    \/ TraderRun
    \/ BuildingAttempt
    \/ BuildingReturns
    \/ TraderMarketMove

SpecTrader == InitTrader /\ [][NextTrader]_vars

----------------------------------------------------------------------------
(* run_trading_cycle and run_trading_floor: the traders of one cycle run    *)
(* side by side under asyncio.gather; each awaits its market context, then  *)
(* its decision call, then executes on its own account                      *)

\* how a call that is awaited can end
CallOutcomes == {"returns", "raises", "never_returns"}

NotStarted == <<>>

\* the cycle as run_trading_cycle enters it
Cycle(phase, aborted, built, valued, status) ==
    [phase |-> phase, aborted |-> aborted, built |-> built, valued |-> valued,
     status |-> status,
     context |-> [n \in CreatedTraders |-> "none"],
     writers |-> [n \in CreatedTraders |-> {}]]

\* the floor right after run_trading_floor is entered
InitCycle ==
    /\ cycle = NotStarted
    /\ schedule = <<>>
    /\ TraderIdle
    /\ ProcessIdle
    /\ balance = 0
    /\ strategy = ""
    /\ holdings = EmptyDict
    /\ transactions = <<>>
    /\ portfolio_value_time_series = <<>>
    /\ db = <<>>
    /\ market = [s \in Symbols |-> 0]
    /\ now = 0
    /\ last = Idle
    /\ nops = 0
    /\ other = <<>>
    /\ GatewayIdle
    /\ PriceIdle
    /\ HoursIdle

\* create_traders raises as soon as one Trader(name) raises
CreateTradersRaises(built) == \E n \in CreatedTraders : ~built[n]

\* run_trading_cycle up to the gather: the traders are built (each
\* constructor returns or raises), then each account records its value
\* (a failure there is printed and skipped), then every run() is started.
\* An exception of create_traders leaves run_trading_cycle and is caught by
\* run_trading_floor, which goes to sleep.
RunTradingCycle ==
    \E built \in [CreatedTraders -> BOOLEAN], valued \in [CreatedTraders -> BOOLEAN] :
        /\ IF cycle = NotStarted THEN TRUE ELSE cycle.phase = "asleep"
        /\ cycle' = IF CreateTradersRaises(built)
                    THEN Cycle("asleep", TRUE, built, [n \in CreatedTraders |-> FALSE],
                               [n \in CreatedTraders |-> "not_run"])
                    ELSE Cycle("gathering", FALSE, built, valued,
                               [n \in CreatedTraders |-> "fetching_context"])
        /\ UNCHANGED <<accountVars, db, market, now, last, nops, other, gatewayVars,
                       priceVars, hoursVars, schedule, traderVars, processVars>>

\* asyncio.wait_for(..., timeout=60.0) around the market context of one
\* trader: what comes back, an error text, or the timeout text
MarketContext ==
    \E n \in CreatedTraders, outcome \in CallOutcomes :
        /\ cycle # NotStarted
        /\ cycle.phase = "gathering"
        /\ cycle.status[n] = "fetching_context"
        /\ cycle' = [cycle EXCEPT
              !.context[n] = CASE outcome = "returns" -> "returned"
                               [] outcome = "raises" -> "error_text"
                               [] outcome = "never_returns" -> "timed_out",
              !.status[n] = "deciding"]
        /\ UNCHANGED <<accountVars, db, market, now, last, nops, other, gatewayVars,
                       priceVars, hoursVars, schedule, traderVars, processVars>>

\* await self.openai.chat.completions.create(...) of one trader, awaited
\* without a timeout, and the execution of the decision on that trader's
\* account; an error becomes a HOLD or an error string
DecisionCall ==
    \E n \in CreatedTraders, outcome \in CallOutcomes, traded \in BOOLEAN :
        /\ cycle # NotStarted
        /\ cycle.phase = "gathering"
        /\ cycle.status[n] = "deciding"
        /\ cycle' = [cycle EXCEPT
              !.status[n] = CASE outcome = "returns" -> "returned"
                              [] outcome = "raises" -> "returned_hold"
                              [] outcome = "never_returns" -> "awaiting_decision",
              !.writers[n] = IF outcome = "returns" /\ traded THEN @ \cup {n} ELSE @]
        /\ UNCHANGED <<accountVars, db, market, now, last, nops, other, gatewayVars,
                       priceVars, hoursVars, schedule, traderVars, processVars>>

Returned(status) == status \in {"returned", "returned_hold"}

\* asyncio.gather returns once every run() has returned; the results are
\* printed and run_trading_floor goes to sleep
GatherReturns ==
    /\ cycle # NotStarted
    /\ cycle.phase = "gathering"
    /\ \A n \in CreatedTraders : Returned(cycle.status[n])
    /\ cycle' = [cycle EXCEPT !.phase = "asleep"]
    /\ UNCHANGED <<accountVars, db, market, now, last, nops, other, gatewayVars,
                   priceVars, hoursVars, schedule, traderVars, processVars>>

NextCycle ==
    \/ RunTradingCycle
    \/ MarketContext
    \/ DecisionCall
    \/ GatherReturns

SpecCycle == InitCycle /\ [][NextCycle]_vars

\* the event loop runs every task that can go on, and the sleep ends
SpecCycleFair ==
    /\ SpecCycle
    /\ WF_vars(RunTradingCycle)
    /\ WF_vars(MarketContext)
    /\ WF_vars(DecisionCall)
    /\ WF_vars(GatherReturns)

----------------------------------------------------------------------------
(* The thread of start_api.py that imports the trading floor and runs its   *)
(* loop, and starts it again after an error                                 *)

max_retries == 3

MaxCycles == 2

\* a variant that would not count a failed run
retry_not_counted(retry_count) == retry_count

\* retry_count += 1
retry_after_error(retry_count) == retry_count + 1

\* how asyncio.run(trading_floor.run_trading_floor()) can end
LoopEndings == {"normal", "KeyboardInterrupt", "Exception"}

Supervisor(state, retry_count, starts, cycles, log) ==
    [state |-> state, retry_count |-> retry_count, starts |-> starts,
     cycles |-> cycles, log |-> log]

\* the thread has been started: retry_count = 0 and the while test is next
InitSupervisor ==
    /\ supervisor = Supervisor("attempting", 0, 0, 0, <<>>)
    /\ databases = <<>>
    /\ schedule = <<>>
    /\ TraderIdle
    /\ cycle = <<>>
    /\ balance = 0
    /\ strategy = ""
    /\ holdings = EmptyDict
    /\ transactions = <<>>
    /\ portfolio_value_time_series = <<>>
    /\ db = <<>>
    /\ market = [s \in Symbols |-> 0]
    /\ now = 0
    /\ last = Idle
    /\ nops = 0
    /\ other = <<>>
    /\ GatewayIdle
    /\ PriceIdle
    /\ HoursIdle

\* one pass of the while loop up to asyncio.run: the import works and the
\* loop is started, or the import raises ImportError, which is counted
\* and followed at once by the next while test
StartTradingFloor ==
    \E importOk \in BOOLEAN :
        /\ supervisor.state = "attempting"
        /\ supervisor.retry_count < max_retries
        /\ supervisor' =
              IF importOk
              THEN Supervisor("running", supervisor.retry_count, supervisor.starts + 1, 0,
                              supervisor.log)
              ELSE LET retry_count == retry_after_error(supervisor.retry_count)
                   IN  Supervisor(IF retry_count < max_retries THEN "attempting"
                                  ELSE "stopped",
                                  retry_count, supervisor.starts, 0,
                                  Append(supervisor.log, "ImportError"))
        /\ UNCHANGED <<accountVars, db, market, now, last, nops, other, gatewayVars,
                       priceVars, hoursVars, schedule, traderVars, cycle, databases>>

\* one pass of the while True loop of run_trading_floor
FloorCycle ==
    /\ supervisor.state = "running"
    /\ supervisor.cycles < MaxCycles
    /\ supervisor' = [supervisor EXCEPT !.cycles = @ + 1]
    /\ UNCHANGED <<accountVars, db, market, now, last, nops, other, gatewayVars,
                   priceVars, hoursVars, schedule, traderVars, cycle, databases>>

\* asyncio.run returns or raises: break after a normal exit and after
\* KeyboardInterrupt; any other Exception is counted, and followed by the
\* 30 second sleep or, at max_retries, by the break
LoopEnds ==
    \E ending \in LoopEndings :
        /\ supervisor.state = "running"
        /\ supervisor' =
              IF ending = "Exception"
              THEN LET retry_count == retry_after_error(supervisor.retry_count)
                   IN  Supervisor(IF retry_count < max_retries THEN "waiting"
                                  ELSE "stopped",
                                  retry_count, supervisor.starts, supervisor.cycles,
                                  Append(supervisor.log, ending))
              ELSE Supervisor("stopped", supervisor.retry_count, supervisor.starts,
                              supervisor.cycles, Append(supervisor.log, ending))
        /\ UNCHANGED <<accountVars, db, market, now, last, nops, other, gatewayVars,
                       priceVars, hoursVars, schedule, traderVars, cycle, databases>>

\* time.sleep(30) is over
RetryDelayOver ==
    /\ supervisor.state = "waiting"
    /\ supervisor' = [supervisor EXCEPT !.state = "attempting"]
    /\ UNCHANGED <<accountVars, db, market, now, last, nops, other, gatewayVars,
                   priceVars, hoursVars, schedule, traderVars, cycle, databases>>

NextSupervisor ==
    \/ StartTradingFloor
    \/ FloorCycle
    \/ LoopEnds
    \/ RetryDelayOver

SpecSupervisor == InitSupervisor /\ [][NextSupervisor]_vars

----------------------------------------------------------------------------
(* The market queries of PolygonClient on the cache path of _make_request   *)

\* what a gateway function hands to _make_request: the endpoint as its path
\* segments, the params as items, and the cache_ttl (10 and 3600 seconds in
\* the source, the ttl of the model here)
get_last_trade(ticker) ==
    [function |-> "get_last_trade", endpoint |-> <<"v2", "last", "trade", ticker>>,
     params |-> <<>>, cache_ttl |-> TTL]

get_last_quote(ticker) ==
    [function |-> "get_last_quote", endpoint |-> <<"v2", "last", "nbbo", ticker>>,
     params |-> <<>>, cache_ttl |-> TTL]

IndicatorParams(timespan, limit, window) ==
    << <<"timespan", timespan>>, <<"limit", limit>>, <<"window", window>> >>

get_rsi(ticker, timespan, limit, window) ==
    [function |-> "get_rsi", endpoint |-> <<"v1", "indicators", "rsi", ticker>>,
     params |-> IndicatorParams(timespan, limit, window), cache_ttl |-> TTL]

get_sma(ticker, timespan, limit, window) ==
    [function |-> "get_sma", endpoint |-> <<"v1", "indicators", "sma", ticker>>,
     params |-> IndicatorParams(timespan, limit, window), cache_ttl |-> TTL]

\* the windows asked for: the default of get_rsi and the default of get_sma
Windows == {"14", "20"}

PolygonQueries ==
    {get_last_trade(s) : s \in Symbols} \cup {get_last_quote(s) : s \in Symbols}
    \cup {get_rsi(s, "day", "50", w) : s \in Symbols, w \in Windows}
    \cup {get_sma(s, "day", "50", w) : s \in Symbols, w \in Windows}

\* function_name = endpoint.split('/')[-1]
function_name_of(endpoint) == endpoint[Len(endpoint)]

\* the call as check_api_cache and save_api_call get it
PolygonCall(q) ==
    [provider |-> "polygon", function_name |-> function_name_of(q.endpoint),
     params |-> q.params]

\* what the upstream answers to a query: the data of that endpoint for those
\* params
Payload(q) == [function |-> q.function, endpoint |-> q.endpoint, params |-> q.params]

QueryReply(q, t, result, payload) ==
    [op |-> "polygon_query", query |-> Payload(q), key |-> CacheKey(PolygonCall(q)),
     at |-> t, result |-> result, payload |-> payload]

\* _make_request of PolygonClient for a query whose upstream call works:
\* the cached payload of the key, or the upstream's answer, which is saved
polygon_make_request(rows, q, t, storage) ==
    LET c == PolygonCall(q)
        cache_result == check_api_cache(rows, c, q.cache_ttl, t)
        saved == save_api_call(rows, c, Payload(q), TRUE, t, storage)
    IN  IF cache_result # <<>>
        THEN [rows |-> rows, saves |-> {},
              reply |-> QueryReply(q, t, "hit", cache_result[1].response_data)]
        ELSE [rows |-> saved.rows, saves |-> {SaveCall(c, TRUE, t, storage)},
              reply |-> QueryReply(q, t, IF saved.raises THEN "storage_error" ELSE "fetched",
                                   Payload(q))]

PolygonQuery ==
    \E q \in PolygonQueries, storage \in StorageOutcomes :
        LET r == polygon_make_request(raw_api_calls, q, now, storage)
        IN  /\ requests < MaxCalls
            /\ raw_api_calls' = r.rows
            /\ reply' = r.reply
            /\ requests' = requests + 1
            /\ save_calls' = save_calls \cup r.saves
            /\ UNCHANGED <<accountVars, db, market, now, last, nops, other,
                           priceVars, hoursVars, floorVars>>

NextQueries ==
    \/ PolygonQuery
    \/ ClockTick

SpecQueries == InitGateway /\ [][NextQueries]_vars

----------------------------------------------------------------------------
(* Database objects: the class flag _initialized, the path each object is   *)
(* given, and the stores (SQLite files, or the PostgreSQL database)         *)

MaxDatabases == 3

LocalPath == "trading_system.db"

PersistentPath == "/data/trading_system.db"

PostgresStore == "DATABASE_URL"

Stores == {LocalPath, PersistentPath, PostgresStore}

\* get_database_path: the persistent volume on Railway or Render
get_database_path(cloud) == IF cloud THEN PersistentPath ELSE LocalPath

\* the db_path the callers pass: DATABASE_PATH (accounts.py, api_server.py,
\* alpha_vantage.py) or the default of the parameter (PolygonClient and the
\* agents' tools)
DbPathArguments(cloud) == {get_database_path(cloud), LocalPath}

\* the store get_connection of an object opens
StoreOf(use_postgresql, db_path) == IF use_postgresql THEN PostgresStore ELSE db_path

\* if not Database._initialized
Initialises(initialized) == ~initialized

\* the process before any Database object is built: the environment it runs
\* in, and for each store whether an earlier process has left the tables there
InitDatabases ==
    /\ \E cloud \in BOOLEAN, use_postgresql \in BOOLEAN, tables \in [Stores -> BOOLEAN] :
          databases = [cloud |-> cloud, use_postgresql |-> use_postgresql,
                       _initialized |-> FALSE, tables |-> tables,
                       instances |-> <<>>, last_query |-> <<>>]
    /\ supervisor = <<>>
    /\ schedule = <<>>
    /\ TraderIdle
    /\ cycle = <<>>
    /\ balance = 0
    /\ strategy = ""
    /\ holdings = EmptyDict
    /\ transactions = <<>>
    /\ portfolio_value_time_series = <<>>
    /\ db = <<>>
    /\ market = [s \in Symbols |-> 0]
    /\ now = 0
    /\ last = Idle
    /\ nops = 0
    /\ other = <<>>
    /\ GatewayIdle
    /\ PriceIdle
    /\ HoursIdle

\* Database.__init__: the first object of the process creates the tables in
\* its own store and sets the flag (or init_database raises, and so does the
\* constructor); every later object only takes its path
NewDatabase ==
    \E db_path \in DbPathArguments(databases.cloud), initOk \in BOOLEAN :
        LET store == StoreOf(databases.use_postgresql, db_path)
        IN  /\ Len(databases.instances) < MaxDatabases
            /\ databases' =
                  IF Initialises(databases._initialized)
                  THEN IF initOk
                       THEN [databases EXCEPT !._initialized = TRUE,
                                              !.tables[store] = TRUE,
                                              !.instances = Append(@, store),
                                              !.last_query = <<>>]
                       ELSE [databases EXCEPT !.last_query = <<>>]
                  ELSE [databases EXCEPT !.instances = Append(@, store),
                                         !.last_query = <<>>]
            /\ UNCHANGED <<accountVars, db, market, now, last, nops, other, gatewayVars,
                           priceVars, hoursVars, schedule, traderVars, cycle, supervisor>>

\* an object reads or writes through get_connection: the statement works
\* when its table is in the store
DatabaseQuery ==
    \E i \in DOMAIN databases.instances :
        /\ databases.last_query # <<[instance |-> i,
                                     ok |-> databases.tables[databases.instances[i]]]>>
        /\ databases' = [databases EXCEPT
              !.last_query = <<[instance |-> i,
                                ok |-> databases.tables[databases.instances[i]]]>>]
        /\ UNCHANGED <<accountVars, db, market, now, last, nops, other, gatewayVars,
                       priceVars, hoursVars, schedule, traderVars, cycle, supervisor>>

NextDatabases ==
    \/ NewDatabase
    \/ DatabaseQuery

SpecDatabases == InitDatabases /\ [][NextDatabases]_vars

----------------------------------------------------------------------------
(* Claims *)

LedgerCalls == {"deposit", "withdraw", "buy_shares", "sell_shares"}
TradeCalls == {"buy_shares", "sell_shares"}
ExecutedMessages == {"BUY executed", "BUY executed (partial)", "SELL executed"}

\* C1: after any sequence of deposit, withdraw, buy_shares and sell_shares
\* calls, whatever the amounts and quantities, balance >= 0.
C1_BalanceNonNegative == balance >= 0

\* C2: every symbol present in holdings maps to a positive share count; no key
\* is ever stored with a count of 0 or less.
C2_HoldingsPositive == \A s \in DOMAIN holdings : holdings[s] > 0

\* C3: a buy_shares, sell_shares, deposit or withdraw call that fails leaves
\* balance, holdings and transactions as they were, in memory and in the
\* stored record.
C3_FailedCallNoEffect ==
    [][(last' # Idle /\ last'.call \in LedgerCalls /\ last'.result # "ok")
        => /\ balance' = balance
           /\ holdings' = holdings
           /\ transactions' = transactions
           /\ db' = db]_vars

\* C4: a BUY through execute_decision whose cost at the fill price (price plus
\* spread) exceeds the balance is not rejected: it is executed for the largest
\* whole number of shares affordable at the fill price when that is at least
\* 1, and is otherwise a no-op that returns a reason.  (A decision whose
\* transaction record cannot be built is left aside.)
C4_BuyClampedAtFillPrice ==
    [][(/\ last'.op = "execute_decision"
        /\ last'.decision = "BUY"
        /\ last'.sym \in Symbols
        /\ last'.req > 0
        /\ market[last'.sym] > 0
        /\ last'.result # "ValidationError"
        /\ market[last'.sym] * (1000 + SPREAD) * last'.req > balance)
        => LET fill == market[last'.sym] * (1000 + SPREAD)
               affordable == balance \div fill
           IN  IF affordable >= 1
               THEN /\ last'.call = "buy_shares"
                    /\ last'.result = "ok"
                    /\ last'.qty = affordable
                    /\ last'.message = "BUY executed (partial)"
                    /\ balance' = balance - fill * affordable
               ELSE /\ last'.call = "none"
                    /\ last'.message = "Cannot afford any shares"
                    /\ balance' = balance
                    /\ holdings' = holdings]_vars

\* C5: sell_shares(symbol, q) fails whenever q exceeds the shares held of
\* symbol (0 when absent), leaving holdings and balance unchanged; a SELL
\* through execute_decision passes its quantity on unclamped, so the same holds.
C5_OversellRejected ==
    [][/\ (last'.call = "sell_shares" /\ last'.qty > DictGet(holdings, last'.sym))
            => /\ last'.result = "InsufficientShares"
               /\ holdings' = holdings
               /\ balance' = balance
               /\ last'.op = "execute_decision" => last'.message = "Trade execution failed"
       /\ (last'.op = "execute_decision" /\ last'.decision = "SELL"
            /\ last'.sym \in Symbols /\ last'.req > 0)
            => (last'.call = "sell_shares" /\ last'.qty = last'.req)]_vars

\* an oversell through execute_decision was rejected (10 held, 50 asked)
C5_Witness ==
    /\ last.op = "execute_decision"
    /\ last.call = "sell_shares"
    /\ last.result = "InsufficientShares"
    /\ DictGet(holdings, last.sym) > 0
    /\ last.qty > DictGet(holdings, last.sym)

C7_SellEffect ==
    [][(last'.call = "sell_shares" /\ last'.result = "ok")
        => LET s == last'.sym
               q == last'.qty
               fill == market[s] * 1000 - market[s] * SPREAD
               n == Len(transactions)
           IN  /\ s \in DOMAIN holdings
               /\ DictGet(holdings', s) = holdings[s] - q
               /\ (holdings[s] - q = 0) <=> (s \notin DOMAIN holdings')
               /\ \A x \in Symbols \ {s} : DictGet(holdings', x) = DictGet(holdings, x)
               /\ balance' = balance + fill * q
               /\ Len(transactions') = n + 1
               /\ SubSeq(transactions', 1, n) = transactions
               /\ transactions'[n + 1].symbol = s
               /\ transactions'[n + 1].quantity = -q
               /\ transactions'[n + 1].price = fill]_vars

\* the 10 shares bought at 200 were sold at 200: the key is gone
C7_Witness ==
    /\ last.call = "sell_shares"
    /\ last.result = "ok"
    /\ last.qty = 10
    /\ holdings = EmptyDict
    /\ balance = 7996000 + 1996000
    /\ Len(transactions) = 2
    /\ transactions[2].quantity = -10
    /\ transactions[2].price = 199600

\* C8: when a write of the account record fails during buy_shares or
\* sell_shares, the call fails and no "BUY executed" / "SELL executed" outcome
\* is produced.
C8_SaveFailureVisible ==
    (last.call \in TradeCalls /\ last.saveFailed)
        => (last.result # "ok" /\ last.message \notin ExecutedMessages)

\* C9: a lookup through Account.get, including one whose read fails, never
\* overwrites the stored balance, holdings or transactions of an account
\* that already exists (only reset returns the record to the initial state).
C9_GetNeverOverwrites ==
    [][(last'.op = "get" /\ db # <<>>)
        => /\ db' # <<>>
           /\ db'[1].balance = db[1].balance
           /\ db'[1].holdings = db[1].holdings
           /\ db'[1].transactions = db[1].transactions]_vars

\* C10: on one Account object (so leaving aside reset, and get, which builds
\* another object) the transaction list only grows at the end: a successful
\* buy_shares or sell_shares appends exactly one record, nothing else appends
\* one, and no record is changed, removed or reordered.
C10_TransactionsAppendOnly ==
    [][last'.op \notin {"reset", "get"}
        => IF last'.call \in TradeCalls /\ last'.result = "ok"
           THEN /\ Len(transactions') = Len(transactions) + 1
                /\ SubSeq(transactions', 1, Len(transactions)) = transactions
           ELSE transactions' = transactions]_vars

\* a second, different record was appended behind the first
C10_Witness ==
    /\ last.call \in TradeCalls
    /\ last.result = "ok"
    /\ Len(transactions) = 2
    /\ transactions[1] # transactions[2]

\* C11: when two Account objects of the same trader each change and save, in
\* any interleaving, every stored transaction list extends the one stored
\* before it: a trade stored by one object is still in the record after the
\* other object saves.
StoredTransactions == IF db = <<>> THEN <<>> ELSE db[1].transactions

IsPrefix(s, t) == Len(s) <= Len(t) /\ SubSeq(t, 1, Len(s)) = s

C11_StoredHistoryMonotonic ==
    [][(last'.op \in {"buy_shares", "sell_shares", "other_buy_shares", "test_save_data"}
        /\ db' # <<>>)
        => IsPrefix(StoredTransactions, db'[1].transactions)]_vars

\* C12: after any sequence of the operations that record valuation samples
\* (update_portfolio_value_series, report, buy_shares, sell_shares, the
\* report made while building a trade prompt), no two consecutive entries of
\* the valuation history carry the same timestamp.
C12_NoRepeatedTimestamp ==
    \A i \in 1..(Len(portfolio_value_time_series) - 1) :
        portfolio_value_time_series[i][1] # portfolio_value_time_series[i + 1][1]

\* C13: get_current_price returns the last-trade price when there is one and
\* it is not zero; when the last trade is missing, its request failed or its
\* price is zero, it returns the mid-point of the last bid and ask if both
\* are there; it returns 0 only when neither source yields a price.
TradePriced(t) == ~t.raises /\ t.status = "OK" /\ t.results # <<>> /\ t.results[1].p > 0

QuotePriced(q) ==
    /\ ~q.raises
    /\ q.status = "OK"
    /\ q.results # <<>>
    /\ q.results[1].p > 0
    /\ q.results[1].P > 0

C13_PriceResolution ==
    price_call # NoCall =>
        price_call.returned =
            IF TradePriced(price_call.trade) THEN price_call.trade.results[1].p
            ELSE IF QuotePriced(price_call.quote)
                 THEN (price_call.quote.results[1].p + price_call.quote.results[1].P) \div 2
                 ELSE 0

\* C14: after a save of a successful response for (provider, function,
\* params), whatever was saved before it, every check of the same provider,
\* function and normalised params made while that response is younger than
\* the ttl reports a hit with an age below the ttl, and a check made once
\* the ttl has elapsed reports a miss.
SuccessfulSaves(key) ==
    {c \in save_calls : c.key = key /\ c.success /\ c.storage = "ok"}

C14_HitWithinTtl ==
    (reply # NoReply /\ reply.op = "check_api_cache" /\ ~reply.raises)
        => IF \E c \in SuccessfulSaves(reply.key) : reply.at - c.at < TTL
           THEN reply.result = "hit" /\ reply.age < TTL
           ELSE SuccessfulSaves(reply.key) # {} => reply.result = "miss"

\* C15: every request through _make_request, served from the cache, fetched
\* or failed, adds one record to raw_api_calls: the number of stored records
\* equals the number of requests made.
C15_OneRecordPerRequest == Len(raw_api_calls) = requests

\* C16: a storage failure on the cache path never fails the request: when
\* the write in save_api_call fails the fetched payload is still returned,
\* and when the read in check_api_cache fails the request is treated as a
\* miss and the network call is made.
C16_StorageFailureTolerated ==
    (reply # NoReply /\ reply.op = "make_request")
        => /\ ~reply.readOk => reply.network # "none"
           /\ (reply.network = "ok" /\ reply.storage # "ok")
                  => (reply.result = "fetched" /\ ~reply.raises)

\* C17: on a cache miss, a request that succeeds is saved with success=true
\* before it returns, and a request that fails for a network, provider-error
\* or parse reason is saved with success=false and then raises.
C17_MissSavedByOutcome ==
    (reply # NoReply /\ reply.op = "make_request" /\ reply.network # "none")
        => IF reply.network = "ok"
           THEN reply.saved = "true"
           ELSE reply.saved = "false" /\ reply.raises

\* C18: calculate_portfolio_value is the balance plus, for each holding, the
\* count times the current price, a holding without a price counting for 0:
\* the value is always produced and the priced holdings stay in it.
Worth(s) ==
    IF s \in DOMAIN holdings /\ market[s] # 0 THEN holdings[s] * market[s] * 1000 ELSE 0

C19_WeekendClosed ==
    (is_open # NotAsked /\ is_open.at.weekday \in {5, 6}) => ~is_open.returned

\* C19: unless the force-open override is set, is_market_open returns false
\* at every Saturday or Sunday Eastern timestamp, whatever the hour and
\* whatever the market-status sources would answer; with the override set
\* it returns true there as everywhere.
C19_WeekendClosedUnlessForced ==
    (is_open # NotAsked /\ is_open.at.weekday \in {5, 6})
        => (is_open.returned <=> FORCE_MARKET_OPEN)

\* asked on a Saturday at 9:30 with Polygon answering "open" and no
\* override: closed
C19_Witness ==
    /\ is_open # NotAsked
    /\ ~FORCE_MARKET_OPEN
    /\ is_open.at = [weekday |-> 5, hour |-> 9, minute |-> 30]
    /\ is_open.status.polygon = "open"
    /\ ~is_open.returned

\* C20: the force-open override is active only when it was set explicitly:
\* on every start-up path in which no configuration sets it, a missing
\* config.py included, FORCE_MARKET_OPEN is false and is_market_open does
\* not take the forced-open branch.
C20_OverrideOnlyExplicit ==
    config_py # "True"
        => /\ ~FORCE_MARKET_OPEN
           /\ is_open # NotAsked => is_open.branch # "forced"

\* C21: for every trader and every Eastern wall-clock time,
\* should_trade_now and should_rebalance_now are never both true: the trade
\* windows and the rebalance windows of one trader do not overlap.
C21_WindowsDisjoint ==
    schedule # Asleep
        => \A n \in TraderNames :
              ~(schedule.answers[n].trade /\ schedule.answers[n].rebalance)

\* C28: every trader name that create_traders runs is known to the
\* scheduler: for each of them the running floor comes to a time at which
\* should_trade_now is true and to a time at which should_rebalance_now is
\* true.
C28_CreatedTradersScheduled ==
    \A n \in CreatedTraders :
        /\ <>(schedule # Asleep /\ schedule.answers[n].trade)
        /\ <>(schedule # Asleep /\ schedule.answers[n].rebalance)

\* C29: every rebalance window can be reached by a running cycle: with the
\* force-open override and the run-when-closed option both off, for each
\* trader a cycle comes that passes the market gate on a weekday at a time
\* inside one of the trader's rebalance windows.
C29_RebalanceWindowReachable ==
    \A n \in CreatedTraders :
        (~FORCE_MARKET_OPEN /\ ~RUN_EVEN_WHEN_MARKET_IS_CLOSED)
            => <>(/\ schedule # Asleep
                  /\ schedule.open
                  /\ ~IsWeekend(now_et.weekday)
                  /\ schedule.answers[n].rebalance)

C25_OneLineOutcome ==
    (run_result # NotRun /\ run_result.returned # "")
        => /\ ~run_result.escaped
           /\ run_result.one_line
           /\ run_result.carries = run_result.executions

\* C23: within one trading cycle, a failure of one trader at any step
\* (construction, valuation update, decision, execution) never prevents the
\* remaining traders from being run in that cycle, and no trader's run
\* changes another trader's account.
C23_FailuresIsolated ==
    cycle # NotStarted
        => /\ \A n \in CreatedTraders : cycle.built[n] => cycle.status[n] # "not_run"
           /\ \A n \in CreatedTraders : cycle.writers[n] \subseteq {n}

\* an awaited call of trader n has not returned: its market context timed
\* out, or its decision call is still awaited
CallNeverReturned(n) ==
    IF cycle = NotStarted THEN FALSE
    ELSE /\ cycle.phase = "gathering"
         /\ cycle.context[n] = "timed_out" \/ cycle.status[n] = "awaiting_decision"

\* run_trading_cycle has returned and the floor sleeps
CycleOver == IF cycle = NotStarted THEN FALSE ELSE cycle.phase = "asleep"

\* C24: if one trader's outbound call (market-context fetch or decision
\* call) never returns, the call is eventually abandoned as a failure of that
\* trader alone: every trader comes to the end of its run, the cycle ends
\* and the floor goes on to its sleep, from which later cycles start.
C24_HangingCallAbandoned ==
    \A n \in CreatedTraders : CallNeverReturned(n) ~> CycleOver

\* C26: the supervisor starts the trading-floor loop again after an
\* uncaught error at most 3 times in total and then gives up for good: it
\* never retries without bound, and a normal exit or a user interrupt is the
\* last thing it sees, after which the loop is not started again.
C26_BoundedRestarts ==
    /\ supervisor.starts <= max_retries
    /\ Len(supervisor.log) <= max_retries
    /\ supervisor.retry_count <= max_retries
    /\ supervisor.retry_count = max_retries => supervisor.state = "stopped"
    /\ \A i \in DOMAIN supervisor.log :
          supervisor.log[i] \in {"normal", "KeyboardInterrupt"}
              => i = Len(supervisor.log) /\ supervisor.state = "stopped"

\* the loop failed three times and the supervisor has given up
C26_Witness ==
    /\ supervisor.state = "stopped"
    /\ supervisor.starts = max_retries
    /\ supervisor.log = <<"Exception", "Exception", "Exception">>

\* C27: a cache hit handed to a gateway function always carries a payload
\* that was saved by the same gateway function for the same ticker and
\* arguments, and two distinct market queries never share a cache key: no
\* stored row of another query has the key of the query just made.
C27_HitIsOwnPayload ==
    reply # NoReply
        => /\ reply.result = "hit" => reply.payload = reply.query
           /\ \A i \in DOMAIN raw_api_calls :
                 RowKey(raw_api_calls[i]) = reply.key
                     => raw_api_calls[i].response_data = reply.query

\* C30: whatever order Database objects are constructed in and whatever
\* path each one is given, every Database object reads and writes a store in
\* which the tables have been created: the tables are created in each
\* distinct store that is used, not only in the first one.
C30_EveryStoreHasTables ==
    /\ \A i \in DOMAIN databases.instances : databases.tables[databases.instances[i]]
    /\ \A j \in DOMAIN databases.last_query : databases.last_query[j].ok

====
